---- MODULE Spec2Model ----
(***************************************************************************)
(* Byteboard scale firmware: the BLE callbacks, setup(), the dispatch      *)
(* loop() with its blocking operations, the EEPROM-backed calibration      *)
(* store of byteboard_hardware.ino, and stringToCommand of                 *)
(* CommandConverter.cpp.                                                   *)
(*                                                                         *)
(* loop() runs on the Arduino loop task, the BLE callbacks on the BLE      *)
(* stack's task.  The shared cells deviceConnected and command are plain   *)
(* globals, so every source-level read of them in loop() is a separate     *)
(* step and the callbacks interleave between the steps.                    *)
(***************************************************************************)
EXTENDS Integers, Sequences, FiniteSets, TLC

(***************************************************************************)
(* Bounds of the model.                                                    *)
(***************************************************************************)
\* control-endpoint writes carry a byte 0..MaxByte (4 and above are outside
\* the Commands enum)
MaxByte == 4
\* whole ticks counted since deviceConnected last changed
MaxRun == 1

(***************************************************************************)
(* enum Commands : uint8_t                                                 *)
(***************************************************************************)
NOTHING == 0
TARE == 1
CALIBRATE == 2
TIMED_MEASURE == 3

\* EEPROM locations
LOCATION_CALIBRATION_FACTOR == 0
LOCATION_ZERO_OFFSET == 10

Bytes == 0..255
WriteBytes == 0..MaxByte

(***************************************************************************)
(* 32-bit values as they lie in memory: 4 bytes, least significant first   *)
(* (the target is little-endian).  EEPROM.put and EEPROM.get copy these    *)
(* bytes.                                                                  *)
(***************************************************************************)
\* int32_t -> its 4 bytes (two's complement)
Int32Bytes(v) ==
  LET u == IF v >= 0 THEN v ELSE -(v + 1)
      b(i) == CASE i = 1 -> u % 256
                [] i = 2 -> (u \div 256) % 256
                [] i = 3 -> (u \div 65536) % 256
                [] i = 4 -> (u \div 16777216) % 256
  IN  [i \in 1..4 |-> IF v >= 0 THEN b(i) ELSE 255 - b(i)]

\* 4 bytes -> int32_t
BytesInt32(bs) ==
  IF bs[4] < 128
    THEN bs[1] + 256 * bs[2] + 65536 * bs[3] + 16777216 * bs[4]
    ELSE -(1 + (255 - bs[1]) + 256 * (255 - bs[2]) + 65536 * (255 - bs[3])
             + 16777216 * (255 - bs[4]))

\* IEEE-754 binary32 fields of a float given by its 4 bytes
F32Sign(f) == f[4] \div 128
F32Exp(f) == (f[4] % 128) * 2 + (f[3] \div 128)
F32Man(f) == (f[3] % 128) * 65536 + f[2] * 256 + f[1]
F32IsNaN(f) == F32Exp(f) = 255 /\ F32Man(f) # 0
F32IsZero(f) == F32Exp(f) = 0 /\ F32Man(f) = 0
\* magnitude order key of a non-NaN float
F32Mag(f) == F32Exp(f) * 8388608 + F32Man(f)

\* float from sign, biased exponent and 23-bit mantissa
F32Make(s, e, m) ==
  <<m % 256, (m \div 256) % 256, (e % 2) * 128 + (m \div 65536), s * 128 + (e \div 2)>>

F32Zero == F32Make(0, 0, 0)
F32One == F32Make(0, 127, 0)
\* the four bytes of an erased cell, read as a float: a NaN
F32Erased == <<255, 255, 255, 255>>
\* (float)0xFFFFFFFF: 4294967295 rounds to 2^32
F32UintMax == F32Make(0, 159, 0)
\* (float)0.1 = 0x3DCCCCCD is the least float not below the double 0.1
F32TenthMag == 123 * 8388608 + 5033165

\* a == b on floats: false when either is a NaN, +0 equals -0
F32Eq(a, b) ==
  /\ ~F32IsNaN(a)
  /\ ~F32IsNaN(b)
  /\ (a = b \/ (F32IsZero(a) /\ F32IsZero(b)))

\* f < 0.1, the float promoted to double
F32LtTenth(f) ==
  /\ ~F32IsNaN(f)
  /\ (F32Sign(f) = 1 \/ F32Mag(f) < F32TenthMag)

(***************************************************************************)
(* Float arithmetic of the target (IEEE-754 binary32, round to nearest     *)
(* even), on the byte representation above.                                *)
(***************************************************************************)
F32Inf(s) == F32Make(s, 255, 0)
F32NaN == F32Make(0, 255, 4194304)
F32IsInf(f) == F32Exp(f) = 255 /\ F32Man(f) = 0

\* floor(log2 a) for 1 <= a < 2^31
Log2(a) == CHOOSE e \in 0..30 : a \div (2 ^ e) = 1

\* q / 2^k rounded to nearest, ties to even; sticky tells that bits below q
\* were already dropped
RoundShift(q, sticky, k) ==
  IF k = 0 THEN q
  ELSE IF k > 26 THEN 0
  ELSE LET d == 2 ^ k
           half == 2 ^ (k - 1)
           hi == q \div d
           lo == q % d
           up == \/ lo > half
                 \/ (lo = half /\ (sticky \/ hi % 2 = 1))
       IN  IF up THEN hi + 1 ELSE hi

\* (float)n for an int32_t n, |n| < 2^31
I32ToF32(n) ==
  IF n = 0 THEN F32Zero
  ELSE LET s == IF n < 0 THEN 1 ELSE 0
           a == IF n < 0 THEN -n ELSE n
           e == Log2(a)
           sig == IF e <= 23 THEN a * (2 ^ (23 - e))
                             ELSE RoundShift(a, FALSE, e - 23)
       IN  IF sig = 16777216
             THEN F32Make(s, e + 128, 0)
             ELSE F32Make(s, e + 127, sig - 8388608)

\* significand and unbiased exponent of a finite non-zero float, the
\* significand normalised to 24 bits
F32Sig(f) ==
  IF F32Exp(f) = 0
    THEN F32Man(f) * (2 ^ (23 - Log2(F32Man(f))))
    ELSE 8388608 + F32Man(f)
F32Unb(f) ==
  IF F32Exp(f) = 0
    THEN Log2(F32Man(f)) - 149
    ELSE F32Exp(f) - 127

\* floor(r * 2^24 / d) and whether the division left a remainder, for
\* d <= r < 2d < 2^25, by long division six bits at a time
DivBits(r, d) ==
  LET r1 == r % d
      r2 == (r1 * 64) % d
      r3 == (r2 * 64) % d
      r4 == (r3 * 64) % d
      q == (((((r \div d) * 64 + (r1 * 64) \div d) * 64 + (r2 * 64) \div d) * 64
               + (r3 * 64) \div d) * 64) + (r4 * 64) \div d
  IN  <<q, (r4 * 64) % d # 0>>

\* the quotient of two float values
F32Quotient(a, b) ==
  LET s == (F32Sign(a) + F32Sign(b)) % 2
  IN  IF F32IsNaN(a) \/ F32IsNaN(b) THEN F32NaN
      ELSE IF F32IsInf(a) THEN (IF F32IsInf(b) THEN F32NaN ELSE F32Inf(s))
      ELSE IF F32IsInf(b) THEN F32Make(s, 0, 0)
      ELSE IF F32IsZero(b) THEN (IF F32IsZero(a) THEN F32NaN ELSE F32Inf(s))
      ELSE IF F32IsZero(a) THEN F32Make(s, 0, 0)
      ELSE LET sa == F32Sig(a)
               sb == F32Sig(b)
               low == sa < sb
               qr == DivBits(IF low THEN 2 * sa ELSE sa, sb)
               e == F32Unb(a) - F32Unb(b) - (IF low THEN 1 ELSE 0) + 127
               sticky == qr[2]
               sig == IF e >= 1 THEN RoundShift(qr[1], sticky, 1)
                                ELSE RoundShift(qr[1], sticky, 2 - e)
               \* exponent field and mantissa add up, a carry out of the
               \* mantissa lands in the exponent
               enc == IF e >= 1 THEN (e - 1) * 8388608 + sig ELSE sig
           IN  IF e >= 255 \/ enc >= 255 * 8388608
                 THEN F32Inf(s)
                 ELSE F32Make(s, enc \div 8388608, enc % 8388608)

\* a / b on floats, each operand evaluated once
F32Div(a, b) == CHOOSE q \in {F32Quotient(x, y) : x \in {a}, y \in {b}} : TRUE

\* significand (24 bits, not normalised for a denormal) and exponent field
\* (1 for a denormal) of a finite float: its magnitude is sig * 2^(exp - 150)
F32RawSig(f) == IF F32Exp(f) = 0 THEN F32Man(f) ELSE 8388608 + F32Man(f)
F32RawExp(f) == IF F32Exp(f) = 0 THEN 1 ELSE F32Exp(f)

\* m / 2^d, a lost bit kept in the lowest bit of the result
StickyShift(m, d) ==
  IF d >= 28 THEN (IF m # 0 THEN 1 ELSE 0)
  ELSE LET q == m \div (2 ^ d)
       IN  IF m % (2 ^ d) # 0 /\ q % 2 = 0 THEN q + 1 ELSE q

\* the float of sign s and magnitude sum8 * 2^(e - 153), sum8 < 2^28 with
\* its leading bit at 2^26 or above unless e = 1
F32Pack(s, sum8, e) ==
  LET carry == sum8 >= 134217728
      s8 == IF carry THEN StickyShift(sum8, 1) ELSE sum8
      e1 == IF carry THEN e + 1 ELSE e
      sig == RoundShift(s8, FALSE, 3)
      enc == (e1 - 1) * 8388608 + sig
  IN  IF enc >= 255 * 8388608 THEN F32Inf(s)
      ELSE F32Make(s, enc \div 8388608, enc % 8388608)

\* the sum of two float values
F32Sum(a, b) ==
  IF F32IsNaN(a) \/ F32IsNaN(b) THEN F32NaN
  ELSE IF F32IsInf(a)
    THEN (IF F32IsInf(b) /\ F32Sign(a) # F32Sign(b) THEN F32NaN ELSE a)
  ELSE IF F32IsInf(b) THEN b
  ELSE IF F32IsZero(a) /\ F32IsZero(b)
    THEN (IF F32Sign(a) = 1 /\ F32Sign(b) = 1 THEN a ELSE F32Zero)
  ELSE IF F32IsZero(a) THEN b
  ELSE IF F32IsZero(b) THEN a
  ELSE LET big == IF F32Mag(a) >= F32Mag(b) THEN a ELSE b
           small == IF F32Mag(a) >= F32Mag(b) THEN b ELSE a
           e == F32RawExp(big)
           x == F32RawSig(big) * 8
           y == StickyShift(F32RawSig(small) * 8, e - F32RawExp(small))
       IN  IF F32Sign(a) = F32Sign(b) THEN F32Pack(F32Sign(big), x + y, e)
           ELSE IF x = y THEN F32Zero
           ELSE LET diff == x - y
                    room == 26 - Log2(diff)
                    k == IF room < 0 THEN 0 ELSE IF room < e - 1 THEN room ELSE e - 1
                IN  F32Pack(F32Sign(big), diff * (2 ^ k), e - k)

\* a + b on floats, each operand evaluated once
F32Add(a, b) == CHOOSE q \in {F32Sum(x, y) : x \in {a}, y \in {b}} : TRUE

\* whether one float value is greater than another
F32Greater(a, b) ==
  /\ ~F32IsNaN(a)
  /\ ~F32IsNaN(b)
  /\ ~(F32IsZero(a) /\ F32IsZero(b))
  /\ IF F32Sign(a) # F32Sign(b) THEN F32Sign(a) = 0
     ELSE IF F32Sign(a) = 0 THEN F32Mag(a) > F32Mag(b)
     ELSE F32Mag(a) < F32Mag(b)

\* a > b on floats, each operand evaluated once
F32Gt(a, b) == \E x \in {a}, y \in {b} : F32Greater(x, y)

(***************************************************************************)
(* Values the environment supplies.                                        *)
(***************************************************************************)
\* averaged raw readings the amplifier driver returns (getAverage) when the
\* dispatcher tares
RawAverages == {25776, 43122}
\* averaged raw readings with the scale empty: the amplifier's output is
\* signed and may lie below zero
EmptyAverages == {-1, 25776}
\* averaged raw readings with the known weight in place
LoadedAverages == {25776, 43122}
\* single raw readings (getReading)
RawSamples == {25776, 57683}
\* 15.2 and 1141.2 as floats
F32Weight == F32Make(0, 130, 7549747)
F32Factor == F32Make(0, 137, 960102)
\* what Serial.parseFloat returns: 0 for input without a number
ParsedWeights == {F32Zero, F32Weight}
\* the samples timedMeasure takes (1000 in the code)
numMeasurements == 2

\* the EEPROM cells the sketch addresses
EepromCells == 0..13
ErasedEeprom == [a \in EepromCells |-> 255]

\* EEPROM.put(address, value) for a 4-byte value given by its bytes
EepromPut(mem, address, bs) ==
  [a \in EepromCells |->
     IF a >= address /\ a < address + 4 THEN bs[a - address + 1] ELSE mem[a]]

\* EEPROM.get(address, value) for a 4-byte value
EepromGet(mem, address) == [i \in 1..4 |-> mem[address + i - 1]]

\* storage contents the device may be powered up with
StoredFactors == {F32Erased, F32Factor}
StoredOffsets == {-1}
InitialEeproms ==
  {EepromPut(EepromPut(ErasedEeprom, LOCATION_CALIBRATION_FACTOR, f),
             LOCATION_ZERO_OFFSET, Int32Bytes(o)) :
     f \in StoredFactors, o \in StoredOffsets}

(***************************************************************************)
(* State.                                                                  *)
(***************************************************************************)
VARIABLES
  pc,                  \* position of the main task in setup() / loop()
  deviceConnected,     \* set by the server callbacks
  oldDeviceConnected,  \* loop()'s record of the connection state it handled
  command,             \* the command cell, a uint8_t
  advertising,         \* the BLE stack is advertising
  measurementValue,    \* value of the measurement characteristic, its bytes
  zeroOffset,          \* the driver's zero offset (int32_t)
  calibrationFactor,   \* the driver's calibration factor (float bytes)
  settingsDetected,    \* calibrated flag
  eeprom,              \* non-volatile storage, byte per cell
  recorded,            \* recordSystemSettings() has written the storage
  serialMaxWeight,     \* "Maximum weight recorded" printed in the tick (float bytes)
  \* history of the current poll tick
  tickConnected,       \* deviceConnected as read at the top of the tick
  tickCmd,             \* command as read by the switch, NoRead before that
  tickOps,             \* operations the dispatcher invoked in the tick
  tickStale,           \* a write was replaced by another value before the read
  prevInvalid,         \* the previous tick read a byte outside the enum
  \* history of the callbacks
  lastWritten,         \* byte of the most recent control write
  pendingFresh,        \* the cell was written since the dispatcher's last read
  pendingStale,        \* a pending write was replaced by a different value
  changed,             \* deviceConnected changed since the top of the tick
  writtenSinceConnect, \* a control write arrived over the present connection
  runTicks,            \* whole ticks passed since deviceConnected changed
  \* CommandConverter
  convInput,           \* argument of stringToCommand
  convResult           \* its outcome

hwVars == <<zeroOffset, calibrationFactor, settingsDetected, eeprom, recorded,
           serialMaxWeight>>
bleVars == <<deviceConnected, command, advertising, measurementValue>>
tickVars == <<tickConnected, tickCmd, tickOps, tickStale, prevInvalid>>
cbVars == <<lastWritten, pendingFresh, pendingStale, changed, writtenSinceConnect>>
convVars == <<convInput, convResult>>
vars == <<pc, oldDeviceConnected, runTicks, hwVars, bleVars, tickVars, cbVars, convVars>>

NoRead == 255 + 1
\* stringToCommand has not been called
NotCalled == [thrown |-> FALSE, value |-> "not called"]

CalibratePcs == {"cal_clear", "cal_weight", "cal_input"}
MeasurePcs == {"tm_sample", "tm_review"}
LoopPcs == {"check", "switch", "disc_check", "advertise", "disc_update",
            "conn_check", "conn_update"} \cup CalibratePcs \cup MeasurePcs

Min(a, b) == IF a < b THEN a ELSE b

\* globals as constructed, before setup() runs; storage is whatever the
\* device was powered up with
PowerOn(mem) ==
  /\ pc = "boot"
  /\ deviceConnected = FALSE
  /\ oldDeviceConnected = FALSE
  /\ command = NOTHING
  /\ advertising = FALSE
  /\ measurementValue = <<>>
  /\ zeroOffset = 0
  /\ calibrationFactor = F32One
  /\ settingsDetected = FALSE
  /\ eeprom = mem
  /\ recorded = FALSE
  /\ serialMaxWeight = F32Zero
  /\ tickConnected = FALSE
  /\ tickCmd = NoRead
  /\ tickOps = <<>>
  /\ tickStale = FALSE
  /\ prevInvalid = FALSE
  /\ lastWritten = NOTHING
  /\ pendingFresh = FALSE
  /\ pendingStale = FALSE
  /\ changed = TRUE
  /\ writtenSinceConnect = FALSE
  /\ runTicks = 0

Init ==
  /\ \E mem \in InitialEeproms : PowerOn(mem)
  /\ convInput = <<>>
  /\ convResult = NotCalled

(***************************************************************************)
(* setFloatArrayValue(): the value it gives a characteristic for the       *)
(* floats data32, their bytes followed by the bytes of their sum.          *)
(***************************************************************************)
\* sum after the first i floats
RECURSIVE FloatArraySum(_, _)
FloatArraySum(data32, i) ==
  IF i = 0 THEN F32Zero ELSE F32Add(FloatArraySum(data32, i - 1), data32[i])

\* temp after the first i floats were copied
RECURSIVE FloatArrayBytes(_, _)
FloatArrayBytes(data32, i) ==
  IF i = 0 THEN <<>> ELSE FloatArrayBytes(data32, i - 1) \o data32[i]

setFloatArrayValue(data32) ==
  FloatArrayBytes(data32, Len(data32)) \o FloatArraySum(data32, Len(data32))

(***************************************************************************)
(* setup()                                                                 *)
(***************************************************************************)
\* "Hello World"
HelloWorld == <<72, 101, 108, 108, 111, 32, 87, 111, 114, 108, 100>>

\* BLE server, service and characteristics created, "Hello World" set as
\* the measurement value, advertising started
SetupBle ==
  /\ pc = "boot"
  /\ measurementValue' = HelloWorld
  /\ advertising' = TRUE
  /\ pc' = "scale_begin"
  /\ UNCHANGED <<deviceConnected, command, oldDeviceConnected, runTicks, hwVars,
                 tickVars, cbVars, convVars>>

\* myScale.begin(): on failure the sketch spins in while (1)
ScaleBegin ==
  /\ pc = "scale_begin"
  /\ \E detected \in BOOLEAN :
       pc' = IF detected THEN "read_settings" ELSE "halt"
  /\ UNCHANGED <<oldDeviceConnected, runTicks, hwVars, bleVars, tickVars, cbVars,
                 convVars>>

\* settingCalibrationFactor == 0xFFFFFFFF: the constant is converted to float
FloatIsErased(f) == F32Eq(f, F32UintMax)

\* settingZeroOffset == 0xFFFFFFFF: the 32-bit long is converted to unsigned
LongIsErased(v) == v = -1

\* readSystemSettings(): the values passed to the driver, the flag and the
\* storage it leaves, from the storage it finds
LoadedSettings(mem) ==
  LET f0 == EepromGet(mem, LOCATION_CALIBRATION_FACTOR)
      f == IF FloatIsErased(f0) THEN F32Zero ELSE f0
      mem1 == IF FloatIsErased(f0)
                THEN EepromPut(mem, LOCATION_CALIBRATION_FACTOR, f)
                ELSE mem
      o0 == BytesInt32(EepromGet(mem1, LOCATION_ZERO_OFFSET))
      o == IF LongIsErased(o0) THEN 1000 ELSE o0
      mem2 == IF LongIsErased(o0)
                THEN EepromPut(mem1, LOCATION_ZERO_OFFSET, Int32Bytes(o))
                ELSE mem1
  IN  [factor |-> f, offset |-> o, mem |-> mem2,
       detected |-> ~(F32LtTenth(f) \/ o = 1000)]

ReadSystemSettings ==
  /\ pc = "read_settings"
  /\ LET r == LoadedSettings(eeprom)
     IN  /\ calibrationFactor' = r.factor
         /\ zeroOffset' = r.offset
         /\ eeprom' = r.mem
         /\ settingsDetected' = r.detected
  /\ pc' = "check"
  /\ UNCHANGED <<recorded, serialMaxWeight, oldDeviceConnected, runTicks, bleVars,
                 tickVars, cbVars, convVars>>

(***************************************************************************)
(* BLE callbacks.  A central can connect only while the peripheral         *)
(* advertises, connecting ends the advertising, and characteristic writes  *)
(* arrive over a connection.                                               *)
(***************************************************************************)
\* variant: a new connection starts with the command cell cleared
OnConnectClearing ==
  /\ advertising
  /\ ~deviceConnected
  /\ deviceConnected' = TRUE
  /\ advertising' = FALSE
  /\ command' = NOTHING
  /\ changed' = TRUE
  /\ writtenSinceConnect' = FALSE
  /\ UNCHANGED <<pc, measurementValue, oldDeviceConnected, runTicks, hwVars,
                 tickVars, lastWritten, pendingFresh, pendingStale, convVars>>

OnConnect ==
  /\ advertising
  /\ ~deviceConnected
  /\ deviceConnected' = TRUE
  /\ advertising' = FALSE
  /\ changed' = TRUE
  /\ writtenSinceConnect' = FALSE
  /\ UNCHANGED <<pc, command, measurementValue, oldDeviceConnected, runTicks,
                 hwVars, tickVars, lastWritten, pendingFresh, pendingStale,
                 convVars>>

OnDisconnect ==
  /\ deviceConnected
  /\ deviceConnected' = FALSE
  /\ changed' = TRUE
  /\ writtenSinceConnect' = FALSE
  /\ UNCHANGED <<pc, command, advertising, measurementValue, oldDeviceConnected,
                 runTicks, hwVars, tickVars, lastWritten, pendingFresh,
                 pendingStale, convVars>>

\* variant: a write is dropped while an earlier one has not been read
ControlOnWriteFirstWins(b) ==
  /\ deviceConnected
  /\ command' = IF pendingFresh THEN command ELSE b
  /\ lastWritten' = b
  /\ pendingFresh' = TRUE
  /\ pendingStale' = (pendingStale \/ (pendingFresh /\ lastWritten # b))
  /\ writtenSinceConnect' = TRUE
  /\ UNCHANGED <<pc, deviceConnected, advertising, measurementValue,
                 oldDeviceConnected, runTicks, hwVars, tickVars, changed, convVars>>

\* ControlCharacteristicCallbacks::onWrite with first data byte b
ControlOnWrite(b) ==
  /\ deviceConnected
  /\ command' = b
  /\ lastWritten' = b
  /\ pendingFresh' = TRUE
  /\ pendingStale' = (pendingStale \/ (pendingFresh /\ lastWritten # b))
  /\ writtenSinceConnect' = TRUE
  /\ UNCHANGED <<pc, deviceConnected, advertising, measurementValue,
                 oldDeviceConnected, runTicks, hwVars, tickVars, changed, convVars>>

(***************************************************************************)
(* Operations the dispatcher invokes.  Each records itself in tickOps.     *)
(***************************************************************************)
\* case NOTHING and default: break
NoOperation ==
  /\ pc' = "disc_check"
  /\ UNCHANGED <<tickOps, hwVars>>

\* case TARE: myScale.calculateZeroOffset() sets the zero offset to an
\* average of raw readings
TareCommand ==
  /\ \E avg \in RawAverages : zeroOffset' = avg
  /\ tickOps' = Append(tickOps, "calculateZeroOffset")
  /\ pc' = "disc_check"
  /\ UNCHANGED <<calibrationFactor, settingsDetected, eeprom, recorded,
                 serialMaxWeight>>

\* case CALIBRATE: calibrateScale() prompts and waits for a key
CalibrateScaleEnter ==
  /\ tickOps' = Append(tickOps, "calibrateScale")
  /\ pc' = "cal_clear"
  /\ UNCHANGED hwVars

\* case TIMED_MEASURE: timedMeasure() counts down
TimedMeasureEnter ==
  /\ tickOps' = Append(tickOps, "timedMeasure")
  /\ pc' = "tm_sample"
  /\ UNCHANGED hwVars

\* variant: case TARE without its break, falling into case CALIBRATE
DispatchCommandFallThrough(c) ==
  CASE c = NOTHING -> NoOperation
    [] c = TARE -> /\ \E avg \in RawAverages : zeroOffset' = avg
                   /\ tickOps' = Append(Append(tickOps, "calculateZeroOffset"),
                                        "calibrateScale")
                   /\ pc' = "cal_clear"
                   /\ UNCHANGED <<calibrationFactor, settingsDetected, eeprom,
                                  recorded, serialMaxWeight>>
    [] c = CALIBRATE -> CalibrateScaleEnter
    [] c = TIMED_MEASURE -> TimedMeasureEnter
    [] OTHER -> NoOperation

\* variant: default taken for case TARE
DispatchCommandDefaultTare(c) ==
  CASE c = NOTHING -> NoOperation
    [] c = CALIBRATE -> CalibrateScaleEnter
    [] c = TIMED_MEASURE -> TimedMeasureEnter
    [] OTHER -> TareCommand

\* switch (command)
DispatchCommand(c) ==
  CASE c = NOTHING -> NoOperation
    [] c = TARE -> TareCommand
    [] c = CALIBRATE -> CalibrateScaleEnter
    [] c = TIMED_MEASURE -> TimedMeasureEnter
    [] OTHER -> NoOperation

(***************************************************************************)
(* calibrateScale() after its first prompt                                 *)
(***************************************************************************)
\* key pressed with the scale empty: calculateZeroOffset(64)
CalibrateTare ==
  /\ pc = "cal_clear"
  /\ \E avg \in EmptyAverages : zeroOffset' = avg
  /\ pc' = "cal_weight"
  /\ UNCHANGED <<calibrationFactor, settingsDetected, eeprom, recorded,
                 serialMaxWeight, oldDeviceConnected, runTicks, bleVars, tickVars,
                 cbVars, convVars>>

\* variant: the wait for the key services a Tare found in the command cell
CalibrateWeightPlacedServing ==
  /\ pc = "cal_weight"
  /\ pc' = "cal_input"
  /\ IF command = TARE
       THEN /\ \E avg \in RawAverages : zeroOffset' = avg
            /\ tickOps' = Append(tickOps, "calculateZeroOffset")
            /\ pendingFresh' = FALSE
       ELSE UNCHANGED <<zeroOffset, tickOps, pendingFresh>>
  /\ UNCHANGED <<calibrationFactor, settingsDetected, eeprom, recorded,
                 serialMaxWeight, oldDeviceConnected, runTicks, bleVars,
                 tickConnected, tickCmd, tickStale, prevInvalid, lastWritten,
                 pendingStale, changed, writtenSinceConnect, convVars>>

\* key pressed with the known weight in place
CalibrateWeightPlaced ==
  /\ pc = "cal_weight"
  /\ pc' = "cal_input"
  /\ UNCHANGED <<oldDeviceConnected, runTicks, hwVars, bleVars, tickVars, cbVars,
                 convVars>>

\* variant: the quotient taken the other way round
NewCalibrationFactorInverted(onScale, offset, weightOnScale) ==
  F32Div(weightOnScale, I32ToF32(onScale - offset))

\* the driver's calculateCalibrationFactor(weightOnScale, 64)
NewCalibrationFactor(onScale, offset, weightOnScale) ==
  F32Div(I32ToF32(onScale - offset), weightOnScale)

\* recordSystemSettings()
RecordSystemSettings(mem, factor, offset) ==
  EepromPut(EepromPut(mem, LOCATION_CALIBRATION_FACTOR, factor),
            LOCATION_ZERO_OFFSET, Int32Bytes(offset))

\* variant: recordSystemSettings called ahead of calculateCalibrationFactor
CalibrateFinishRecordFirst ==
  /\ pc = "cal_input"
  /\ \E weightOnScale \in ParsedWeights, onScale \in LoadedAverages :
       /\ calibrationFactor' = NewCalibrationFactor(onScale, zeroOffset, weightOnScale)
       /\ eeprom' = RecordSystemSettings(eeprom, calibrationFactor, zeroOffset)
  /\ recorded' = TRUE
  /\ pc' = "disc_check"
  /\ UNCHANGED <<zeroOffset, settingsDetected, serialMaxWeight, oldDeviceConnected,
                 runTicks, bleVars, tickVars, cbVars, convVars>>

\* weight entered: parseFloat, calculateCalibrationFactor, recordSystemSettings
CalibrateFinish ==
  /\ pc = "cal_input"
  /\ \E weightOnScale \in ParsedWeights, onScale \in LoadedAverages :
       LET factor == NewCalibrationFactor(onScale, zeroOffset, weightOnScale)
       IN  /\ calibrationFactor' = factor
           /\ eeprom' = RecordSystemSettings(eeprom, factor, zeroOffset)
  /\ recorded' = TRUE
  /\ pc' = "disc_check"
  /\ UNCHANGED <<zeroOffset, settingsDetected, serialMaxWeight, oldDeviceConnected,
                 runTicks, bleVars, tickVars, cbVars, convVars>>

(***************************************************************************)
(* timedMeasure() after the countdown                                      *)
(***************************************************************************)
\* (measurements[j] - zeroOffset) / calibrationFactor
TrueWeight(measurement, offset, factor) ==
  F32Div(I32ToF32(measurement - offset), factor)

\* the loop over the measurements, from index j with running maximum maxW
RECURSIVE MaxWeightFrom(_, _, _, _, _)
MaxWeightFrom(measurements, j, offset, factor, maxW) ==
  IF j > Len(measurements) THEN maxW
  ELSE LET trueWeight == TrueWeight(measurements[j], offset, factor)
       IN  MaxWeightFrom(measurements, j + 1, offset, factor,
                         IF F32Gt(trueWeight, maxW) THEN trueWeight ELSE maxW)

\* the samples are taken and the maximum weight is printed
TimedMeasureSample ==
  /\ pc = "tm_sample"
  /\ \E measurements \in [1..numMeasurements -> RawSamples] :
       serialMaxWeight' =
         MaxWeightFrom(measurements, 1, zeroOffset, calibrationFactor, F32Zero)
  /\ pc' = "tm_review"
  /\ UNCHANGED <<zeroOffset, calibrationFactor, settingsDetected, eeprom, recorded,
                 oldDeviceConnected, runTicks, bleVars, tickVars, cbVars, convVars>>

\* key pressed after reviewing the results
TimedMeasureReviewed ==
  /\ pc = "tm_review"
  /\ pc' = "disc_check"
  /\ UNCHANGED <<oldDeviceConnected, runTicks, hwVars, bleVars, tickVars, cbVars,
                 convVars>>

(***************************************************************************)
(* loop()                                                                  *)
(***************************************************************************)
\* variant: the switch is entered whether or not a peer is connected
LoopCheckUnguarded ==
  /\ pc = "check"
  /\ tickConnected' = deviceConnected
  /\ prevInvalid' = (tickCmd # NoRead /\ tickCmd \notin 0..3)
  /\ tickCmd' = NoRead
  /\ tickOps' = <<>>
  /\ tickStale' = FALSE
  /\ serialMaxWeight' = F32Zero
  /\ runTicks' = IF changed THEN 0 ELSE Min(runTicks + 1, MaxRun)
  /\ changed' = FALSE
  /\ pc' = "switch"
  /\ UNCHANGED <<oldDeviceConnected, zeroOffset, calibrationFactor,
                 settingsDetected, eeprom, recorded, bleVars, lastWritten,
                 pendingFresh, pendingStale, writtenSinceConnect, convVars>>

\* if (deviceConnected): top of a poll tick
LoopCheck ==
  /\ pc = "check"
  /\ tickConnected' = deviceConnected
  /\ prevInvalid' = (tickCmd # NoRead /\ tickCmd \notin 0..3)
  /\ tickCmd' = NoRead
  /\ tickOps' = <<>>
  /\ tickStale' = FALSE
  /\ serialMaxWeight' = F32Zero
  /\ runTicks' = IF changed THEN 0 ELSE Min(runTicks + 1, MaxRun)
  /\ changed' = FALSE
  /\ pc' = IF deviceConnected THEN "switch" ELSE "disc_check"
  /\ UNCHANGED <<oldDeviceConnected, zeroOffset, calibrationFactor,
                 settingsDetected, eeprom, recorded, bleVars, lastWritten,
                 pendingFresh, pendingStale, writtenSinceConnect, convVars>>

\* switch (command) { ... } followed by delay(500)
LoopDispatch ==
  /\ pc = "switch"
  /\ tickCmd' = command
  /\ tickStale' = pendingStale
  /\ pendingFresh' = FALSE
  /\ pendingStale' = FALSE
  /\ DispatchCommand(command)
  /\ UNCHANGED <<tickConnected, prevInvalid, oldDeviceConnected, runTicks, bleVars,
                 lastWritten, changed, writtenSinceConnect, convVars>>

\* if (!deviceConnected && oldDeviceConnected)
LoopDisconnecting ==
  /\ pc = "disc_check"
  /\ pc' = IF ~deviceConnected /\ oldDeviceConnected THEN "advertise"
                                                     ELSE "conn_check"
  /\ UNCHANGED <<oldDeviceConnected, runTicks, hwVars, bleVars, tickVars, cbVars,
                 convVars>>

\* delay(500); byteBoardServer->startAdvertising()
LoopStartAdvertising ==
  /\ pc = "advertise"
  /\ advertising' = TRUE
  /\ pc' = "disc_update"
  /\ UNCHANGED <<deviceConnected, command, measurementValue, oldDeviceConnected,
                 runTicks, hwVars, tickVars, cbVars, convVars>>

\* variant: the disconnecting branch leaves oldDeviceConnected as it was
LoopDisconnectedNoUpdate ==
  /\ pc = "disc_update"
  /\ pc' = "conn_check"
  /\ UNCHANGED <<oldDeviceConnected, runTicks, hwVars, bleVars, tickVars, cbVars,
                 convVars>>

\* oldDeviceConnected = deviceConnected, in the disconnecting branch
LoopDisconnected ==
  /\ pc = "disc_update"
  /\ oldDeviceConnected' = deviceConnected
  /\ pc' = "conn_check"
  /\ UNCHANGED <<runTicks, hwVars, bleVars, tickVars, cbVars, convVars>>

\* if (deviceConnected && !oldDeviceConnected)
LoopConnecting ==
  /\ pc = "conn_check"
  /\ pc' = IF deviceConnected /\ ~oldDeviceConnected THEN "conn_update"
                                                     ELSE "check"
  /\ UNCHANGED <<oldDeviceConnected, runTicks, hwVars, bleVars, tickVars, cbVars,
                 convVars>>

\* oldDeviceConnected = deviceConnected, in the connecting branch
LoopConnected ==
  /\ pc = "conn_update"
  /\ oldDeviceConnected' = deviceConnected
  /\ pc' = "check"
  /\ UNCHANGED <<runTicks, hwVars, bleVars, tickVars, cbVars, convVars>>

\* power is cycled: memory starts over, storage keeps its contents
Restart ==
  /\ pc # "boot"
  /\ pc' = "boot"
  /\ deviceConnected' = FALSE
  /\ oldDeviceConnected' = FALSE
  /\ command' = NOTHING
  /\ advertising' = FALSE
  /\ measurementValue' = <<>>
  /\ zeroOffset' = 0
  /\ calibrationFactor' = F32One
  /\ settingsDetected' = FALSE
  /\ serialMaxWeight' = F32Zero
  /\ tickConnected' = FALSE
  /\ tickCmd' = NoRead
  /\ tickOps' = <<>>
  /\ tickStale' = FALSE
  /\ prevInvalid' = FALSE
  /\ lastWritten' = NOTHING
  /\ pendingFresh' = FALSE
  /\ pendingStale' = FALSE
  /\ changed' = TRUE
  /\ writtenSinceConnect' = FALSE
  /\ runTicks' = 0
  /\ UNCHANGED <<eeprom, recorded, convVars>>

\* variant: the failure branch lacks its while (1) and setup() goes on
SetupNoFreeze ==
  \/ SetupBle
  \/ ScaleBegin
  \/ ReadSystemSettings
  \/ /\ pc = "halt"
     /\ pc' = "read_settings"
     /\ UNCHANGED <<oldDeviceConnected, runTicks, hwVars, bleVars, tickVars, cbVars,
                    convVars>>

\* steps of the main task: setup(), loop() and the operations it blocks in
Setup == SetupBle \/ ScaleBegin \/ ReadSystemSettings
Calibrate == CalibrateTare \/ CalibrateWeightPlaced \/ CalibrateFinish
Measure == TimedMeasureSample \/ TimedMeasureReviewed
Loop ==
  \/ LoopCheck
  \/ LoopDispatch
  \/ LoopDisconnecting
  \/ LoopStartAdvertising
  \/ LoopDisconnected
  \/ LoopConnecting
  \/ LoopConnected
MainTask == Setup \/ Loop \/ Calibrate \/ Measure

\* steps of the BLE task
Callbacks == OnConnect \/ OnDisconnect \/ (\E b \in WriteBytes : ControlOnWrite(b))

Next == MainTask \/ Callbacks \/ Restart

Spec == Init /\ [][Next]_vars

\* the main task keeps running: loop() is called again and again and the
\* operator answers every prompt
FairSpec == Spec /\ WF_vars(MainTask)

(***************************************************************************)
(* CommandConverter.cpp.  Strings are sequences of character codes.        *)
(***************************************************************************)
\* "nothing"
TokNothing == <<110, 111, 116, 104, 105, 110, 103>>
\* "acknowledge"
TokAcknowledge == <<97, 99, 107, 110, 111, 119, 108, 101, 100, 103, 101>>
\* "tare"
TokTare == <<116, 97, 114, 101>>
\* "calibrate"
TokCalibrate == <<99, 97, 108, 105, 98, 114, 97, 116, 101>>
\* "timed_measure"
TokTimedMeasure == <<116, 105, 109, 101, 100, 95, 109, 101, 97, 115, 117, 114, 101>>

\* enum class Commands, by enumerator name
stringToCommandMap ==
  { [key |-> TokNothing, value |-> "NOTHING"],
    [key |-> TokAcknowledge, value |-> "ACKNOWLEDGE"],
    [key |-> TokTare, value |-> "TARE"],
    [key |-> TokCalibrate, value |-> "CALIBRATE"],
    [key |-> TokTimedMeasure, value |-> "TIMED_MEASURE"] }

\* std::string operator<: at the first position where the strings differ, a
\* has ended or has the smaller character
StrLess(a, b) ==
  \E i \in 1..Len(b) :
    /\ \A k \in 1..(i - 1) : k <= Len(a) /\ a[k] = b[k]
    /\ (i > Len(a) \/ a[i] < b[i])

\* std::map::find: the entry whose key is neither less nor greater
MapFind(map, s) == {e \in map : ~StrLess(e.key, s) /\ ~StrLess(s, e.key)}

\* variant: an unknown string yields NOTHING
stringToCommandDefaulting(s) ==
  LET it == MapFind(stringToCommandMap, s)
  IN  IF it # {}
        THEN [thrown |-> FALSE, value |-> (CHOOSE e \in it : TRUE).value]
        ELSE [thrown |-> FALSE, value |-> "NOTHING"]

\* stringToCommand: the mapped value, or std::invalid_argument thrown
stringToCommand(s) ==
  LET it == MapFind(stringToCommandMap, s)
  IN  IF it # {}
        THEN [thrown |-> FALSE, value |-> (CHOOSE e \in it : TRUE).value]
        ELSE [thrown |-> TRUE, value |-> "invalid_argument"]

\* strings tried: all strings of at most MaxStrLen characters over
\* t, a, r, e, T, the five tokens, and variants of them
MaxStrLen == 4
ConvAlphabet == {116, 97, 114, 101, 84}
RECURSIVE StringsUpTo(_)
StringsUpTo(n) ==
  IF n = 0 THEN {<<>>}
  ELSE LET shorter == StringsUpTo(n - 1)
       IN  shorter \cup {Append(t, c) : t \in shorter, c \in ConvAlphabet}
\* "Nothing", "NOTHING", "ack", "acknowledged", "TARE", "tare ", "calibrat", "Calibrate", "timed measure", "timed_measur", "timedmeasure", "0", "1"
ConvVariants ==
  {<<78, 111, 116, 104, 105, 110, 103>>,
   <<78, 79, 84, 72, 73, 78, 71>>,
   <<97, 99, 107>>,
   <<97, 99, 107, 110, 111, 119, 108, 101, 100, 103, 101, 100>>,
   <<84, 65, 82, 69>>,
   <<116, 97, 114, 101, 32>>,
   <<99, 97, 108, 105, 98, 114, 97, 116>>,
   <<67, 97, 108, 105, 98, 114, 97, 116, 101>>,
   <<116, 105, 109, 101, 100, 32, 109, 101, 97, 115, 117, 114, 101>>,
   <<116, 105, 109, 101, 100, 95, 109, 101, 97, 115, 117, 114>>,
   <<116, 105, 109, 101, 100, 109, 101, 97, 115, 117, 114, 101>>,
   <<48>>,
   <<49>>}
ConvStrings ==
  StringsUpTo(MaxStrLen) \cup ConvVariants
    \cup {TokNothing, TokAcknowledge, TokTare, TokCalibrate, TokTimedMeasure}

StringToCommandCall ==
  /\ convResult = NotCalled
  /\ convResult' = stringToCommand(convInput)
  /\ UNCHANGED <<convInput, pc, oldDeviceConnected, runTicks, hwVars, bleVars,
                 tickVars, cbVars>>

ConvInit ==
  /\ PowerOn(ErasedEeprom)
  /\ convInput \in ConvStrings
  /\ convResult = NotCalled

ConvSpec == ConvInit /\ [][StringToCommandCall]_vars

(***************************************************************************)
(* Properties.                                                             *)
(***************************************************************************)
\* the operation the dispatcher is to invoke for a command byte
OpsFor(c) ==
  CASE c = NOTHING -> <<>>
    [] c = TARE -> <<"calculateZeroOffset">>
    [] c = CALIBRATE -> <<"calibrateScale">>
    [] c = TIMED_MEASURE -> <<"timedMeasure">>
    [] OTHER -> <<>>

\* a step of the dispatcher's switch
DispatchStep == pc = "switch" /\ pc' \notin {"switch", "boot"}

\* storage holds the driver's current parameters
Persisted ==
  /\ EepromGet(eeprom, LOCATION_CALIBRATION_FACTOR) = calibrationFactor
  /\ BytesInt32(EepromGet(eeprom, LOCATION_ZERO_OFFSET)) = zeroOffset

\* C1: in a poll tick whose test of deviceConnected found it false, no
\* operation is invoked and zero offset, scale factor and storage stay as
\* they are, whatever the command cell holds.
C1_DisconnectedTickInvokesNothing ==
  [][(pc \in LoopPcs /\ pc' \in LoopPcs /\ ~tickConnected')
       => (tickOps' = <<>> /\ UNCHANGED <<zeroOffset, calibrationFactor, eeprom>>)]_vars

\* a tick has passed over a pending Tare with no peer connected
C1_Witness ==
  /\ pc = "conn_check"
  /\ ~tickConnected
  /\ ~deviceConnected
  /\ command = TARE

\* C2: in a connected tick the dispatcher invokes exactly the operation
\* mapped to the command it read, at most one, and a calibration that has
\* returned has persisted the parameters.
C2_DispatchesMappedOperation ==
  tickCmd # NoRead =>
    /\ tickConnected
    /\ tickOps = OpsFor(tickCmd)
    /\ (tickCmd = CALIBRATE /\ pc \notin CalibratePcs => Persisted)

\* a tick that read Calibrate has run the guided calibration to its end
C2_Witness ==
  /\ tickCmd = CALIBRATE
  /\ pc = "disc_check"
  /\ tickOps = <<"calibrateScale">>

\* C3: the dispatcher consumes the command: it invokes an operation only
\* for a command written since its previous read of the cell.
C3_CommandConsumed ==
  [][(DispatchStep /\ tickOps' # <<>>) => pendingFresh]_vars

\* C4: the tick dispatches the most recently written value and only its
\* operation, however many writes came since the previous read.
C4_LastWriteWins ==
  [][DispatchStep => (tickCmd' = lastWritten /\ tickOps' = OpsFor(lastWritten))]_vars

\* a write was replaced by a different value before the dispatcher read the
\* cell, and the tick invoked the operation of the value it read
C4_Witness ==
  /\ tickStale
  /\ tickCmd = TIMED_MEASURE
  /\ tickOps = <<"timedMeasure">>

\* C5: startAdvertising is invoked only in the first tick of a run of ticks
\* over which deviceConnected keeps its value, and never in a tick of a
\* connected run.
C5_AdvertisingEdgeTriggered ==
  (pc = "disc_update" /\ ~changed) => (runTicks = 0 /\ ~tickConnected)

\* a later tick of a disconnected run, after a connection, has passed the
\* disconnecting branch without restarting the advertising
C5_Witness ==
  /\ pc = "conn_check"
  /\ runTicks >= 1
  /\ ~changed
  /\ ~tickConnected
  /\ advertising
  /\ command = TARE

\* C6: once a connection has ended, advertising is eventually restarted.
C6_AdvertisingRestarts ==
  (pc \in LoopPcs /\ ~deviceConnected /\ ~advertising) ~> advertising

\* C7: the command cell always holds one of the enumerated commands.
C7_CommandInEnum ==
  command \in {NOTHING, TARE, CALIBRATE, TIMED_MEASURE}

\* C8: a tick that reads a byte outside 0..3 invokes nothing, changes
\* neither the calibration parameters nor storage, and proceeds to the rest
\* of loop().
C8_UnknownByteIgnored ==
  [][(DispatchStep /\ command \notin 0..3)
       => /\ pc' = "disc_check"
          /\ tickOps' = <<>>
          /\ UNCHANGED <<zeroOffset, calibrationFactor, eeprom>>]_vars

\* the tick after one that read an unknown byte has dispatched a Tare
C8_Witness ==
  /\ prevInvalid
  /\ tickCmd = TARE
  /\ tickOps = <<"calculateZeroOffset">>

\* the Command a token stands for
TokenCommand(s) ==
  CASE s = TokNothing -> "NOTHING"
    [] s = TokAcknowledge -> "ACKNOWLEDGE"
    [] s = TokTare -> "TARE"
    [] s = TokCalibrate -> "CALIBRATE"
    [] s = TokTimedMeasure -> "TIMED_MEASURE"
    [] OTHER -> "none"

\* C9: stringToCommand returns the matching Command for each of the five
\* tokens and throws for every other string.
C9_StringToCommandExact ==
  convResult # NotCalled =>
    IF TokenCommand(convInput) # "none"
      THEN convResult = [thrown |-> FALSE, value |-> TokenCommand(convInput)]
      ELSE convResult.thrown

\* "Tare", a case variant of a token, was rejected
C9_Witness ==
  /\ convInput = <<84, 97, 114, 101>>
  /\ convResult # NotCalled
  /\ convResult.thrown

\* a 4-byte field of storage reads back as the erased pattern
FieldErased(mem, address) == EepromGet(mem, address) = <<255, 255, 255, 255>>

\* C10: readSystemSettings replaces an erased field by its default
\* (scale factor 0, zero offset 1000), writes the default back, passes it to
\* the driver and clears settingsDetected.
C10_LoadHealsErased ==
  [][(pc = "read_settings" /\ pc' = "check")
       => /\ FieldErased(eeprom, LOCATION_CALIBRATION_FACTOR)
               => /\ calibrationFactor' = F32Zero
                  /\ EepromGet(eeprom', LOCATION_CALIBRATION_FACTOR) = F32Zero
                  /\ ~settingsDetected'
          /\ FieldErased(eeprom, LOCATION_ZERO_OFFSET)
               => /\ zeroOffset' = 1000
                  /\ BytesInt32(EepromGet(eeprom', LOCATION_ZERO_OFFSET)) = 1000
                  /\ ~settingsDetected']_vars

\* a step of readSystemSettings() and a step of the calibration's
\* recordSystemSettings()
LoadStep == pc = "read_settings" /\ pc' = "check"
PersistStep == pc = "cal_input" /\ pc' = "disc_check"

\* C11: what recordSystemSettings stores, readSystemSettings hands back to
\* the driver: after the persist both fields of storage hold the driver's
\* values, a load of recorded storage passes exactly the stored scale factor
\* and zero offset to the driver and leaves storage as it is, and a write of
\* one field leaves the other field's stored value alone.
C11_PersistLoadRoundTrip ==
  [][/\ PersistStep
          => /\ EepromGet(eeprom', LOCATION_CALIBRATION_FACTOR) = calibrationFactor'
             /\ BytesInt32(EepromGet(eeprom', LOCATION_ZERO_OFFSET)) = zeroOffset'
     /\ (LoadStep /\ recorded)
          => /\ calibrationFactor' = EepromGet(eeprom, LOCATION_CALIBRATION_FACTOR)
             /\ zeroOffset' = BytesInt32(EepromGet(eeprom, LOCATION_ZERO_OFFSET))
             /\ eeprom' = eeprom
     /\ (LoadStep /\ ~FieldErased(eeprom, LOCATION_CALIBRATION_FACTOR))
          => EepromGet(eeprom', LOCATION_CALIBRATION_FACTOR)
               = EepromGet(eeprom, LOCATION_CALIBRATION_FACTOR)
     /\ (LoadStep /\ ~FieldErased(eeprom, LOCATION_ZERO_OFFSET))
          => EepromGet(eeprom', LOCATION_ZERO_OFFSET)
               = EepromGet(eeprom, LOCATION_ZERO_OFFSET)]_vars

\* C12: a dispatched Tare changes the zero offset in memory only, storage
\* is written by the calibration's persist step and by the load's write-back
\* and by nothing else, and a load of recorded storage restores the zero
\* offset that storage holds.
C12_TareNotPersisted ==
  [][/\ (DispatchStep /\ command = TARE)
          => UNCHANGED <<calibrationFactor, eeprom>>
     /\ (eeprom' # eeprom) => (PersistStep \/ LoadStep)
     /\ (LoadStep /\ recorded)
          => zeroOffset' = BytesInt32(EepromGet(eeprom, LOCATION_ZERO_OFFSET))]_vars

\* C13: while calibrateScale() runs, the tick invokes no other operation and
\* does not read the command cell again: a step of a callback changes the
\* shared cells only, a write stays pending until calibration has returned,
\* and the record of the tick's read is replaced only when a new tick starts.
C13_CalibrationExclusive ==
  [][/\ (pc \in CalibratePcs /\ pc' # "boot")
          => /\ pc' \in CalibratePcs \cup {"disc_check"}
             /\ tickOps' = <<"calibrateScale">>
             /\ tickCmd' = CALIBRATE
             /\ (pendingFresh => pendingFresh')
             /\ (pc' = pc => UNCHANGED <<hwVars, oldDeviceConnected>>)
     /\ (tickCmd = CALIBRATE /\ tickCmd' # CALIBRATE /\ pc' # "boot")
          => pc = "check"]_vars

\* a Tare was written and the peer went away while the calibration waited
\* for the weight to be entered; nothing but calibrateScale has been invoked
C13_Witness ==
  /\ pc = "cal_input"
  /\ pendingFresh
  /\ command = TARE
  /\ ~deviceConnected
  /\ tickOps = <<"calibrateScale">>

\* weightOnScale > 0
F32Positive(w) == F32Gt(w, F32Zero)

\* C14: the guided calibration takes its scale factor from a positive known
\* weight only: the factor it leaves in the driver and in storage is the
\* driver's quotient for some entered weight greater than 0, and an entered
\* weight that is not (0 for input without a number included) changes
\* neither.
C14_RejectsNonPositiveWeight ==
  [][PersistStep
       => (\/ /\ calibrationFactor' = calibrationFactor
              /\ EepromGet(eeprom', LOCATION_CALIBRATION_FACTOR)
                   = EepromGet(eeprom, LOCATION_CALIBRATION_FACTOR)
           \/ \E weightOnScale \in ParsedWeights, onScale \in LoadedAverages :
                /\ F32Positive(weightOnScale)
                /\ calibrationFactor'
                     = NewCalibrationFactor(onScale, zeroOffset, weightOnScale))]_vars

\* C15: once myScale.begin() has failed the main task stays in its
\* while (1): the settings are never loaded, loop() is never entered, and
\* connects and control writes arriving afterwards cause no operation and
\* change neither the driver's parameters nor storage.
C15_HaltIsPermanent ==
  [][(pc = "halt" /\ pc' # "boot")
       => /\ pc' = "halt"
          /\ zeroOffset = 0 /\ calibrationFactor = F32One /\ ~settingsDetected
          /\ tickCmd' = NoRead
          /\ tickOps' = <<>>
          /\ (advertising' => advertising)
          /\ UNCHANGED <<hwVars, oldDeviceConnected, measurementValue>>]_vars

\* a peer has connected to the halted device and written a Tare
C15_Witness ==
  /\ pc = "halt"
  /\ deviceConnected
  /\ command = TARE
  /\ pendingFresh

\* the weights of a run of samples under the driver's current parameters
SampleWeights(measurements) ==
  {TrueWeight(measurements[j], zeroOffset, calibrationFactor) :
     j \in 1..numMeasurements}

\* w is the largest of the weights ws
IsLargest(w, ws) ==
  /\ \E v \in ws : F32Eq(v, w)
  /\ \A v \in ws : ~F32Gt(v, w)

\* C16: with a scale factor that is a number other than 0, the maximum
\* weight timedMeasure reports is the largest of
\* (raw - zeroOffset) / scaleFactor over the samples it took.
C16_ReportsMaximum ==
  (pc = "tm_review" /\ ~F32IsZero(calibrationFactor) /\ ~F32IsNaN(calibrationFactor))
    => \E measurements \in [1..numMeasurements -> RawSamples] :
         IsLargest(serialMaxWeight, SampleWeights(measurements))

\* the floats a value of 4 * n + 4 bytes begins with
LeadingFloats(v) == [i \in 1..(Len(v) \div 4 - 1) |-> SubSeq(v, 4 * i - 3, 4 * i)]

\* v is some floats followed by their sum, the value setFloatArrayValue sets
PackedFrame(v) ==
  /\ Len(v) >= 4
  /\ Len(v) % 4 = 0
  /\ v = setFloatArrayValue(LeadingFloats(v))

\* C17: once setup() is through, the measurement characteristic's value is
\* a packed frame: 4-byte measurements followed by the 4 bytes of their sum.
C17_MeasurementValueIsFrame ==
  pc \in LoopPcs => PackedFrame(measurementValue)

\* (A - T) / w in float arithmetic
FactorFor(A, T, w) == F32Div(I32ToF32(A - T), w)

\* C18, as claimed: a calibration with tare T, reading A # T and known
\* weight w > 0 leaves the scale factor (A - T) / w, under which raw sample
\* A weighs exactly w and raw sample T weighs 0.
C18_CalibrationRoundTrip ==
  [][PersistStep
       => /\ \E w \in ParsedWeights, A \in LoadedAverages :
               calibrationFactor' = FactorFor(A, zeroOffset, w)
          /\ \A w \in ParsedWeights, A \in LoadedAverages :
               (/\ F32Positive(w)
                /\ A # zeroOffset
                /\ calibrationFactor' = FactorFor(A, zeroOffset, w))
                 => /\ F32Eq(TrueWeight(A, zeroOffset', calibrationFactor'), w)
                    /\ F32Eq(TrueWeight(zeroOffset, zeroOffset', calibrationFactor'),
                             F32Zero)]_vars

\* a and b are the same float or neighbours among the floats
F32Adjacent(a, b) ==
  /\ ~F32IsNaN(a)
  /\ ~F32IsNaN(b)
  /\ F32Sign(a) = F32Sign(b)
  /\ F32Mag(a) - F32Mag(b) \in {-1, 0, 1}

\* neither 0, denormal, infinite nor a NaN
F32IsNormal(f) == F32Exp(f) \in 1..254

\* lo < f < hi
F32Between(lo, f, hi) == F32Gt(f, lo) /\ F32Gt(hi, f)

\* C18, amended: the scale factor is (A - T) / w, and when it is a normal
\* float raw sample A weighs w or a float next to w and raw sample T weighs
\* 0; T = 25776, A = 43122, w = 15.2 gives a factor between 1141.15 and
\* 1141.25, under which raw sample A weighs 15.2 and raw sample 57683 weighs
\* between 27.955 and 27.965.
C18_CalibrationRoundTripWithinUlp ==
  [][PersistStep
       => /\ \E w \in ParsedWeights, A \in LoadedAverages :
               calibrationFactor' = FactorFor(A, zeroOffset, w)
          /\ \A w \in ParsedWeights, A \in LoadedAverages :
               (/\ F32Positive(w)
                /\ A # zeroOffset
                /\ calibrationFactor' = FactorFor(A, zeroOffset, w)
                /\ F32IsNormal(calibrationFactor'))
                 => /\ F32Adjacent(TrueWeight(A, zeroOffset', calibrationFactor'), w)
                    /\ F32Eq(TrueWeight(zeroOffset, zeroOffset', calibrationFactor'),
                             F32Zero)
          /\ (zeroOffset = 25776 /\ calibrationFactor' = FactorFor(43122, 25776, F32Weight))
               => /\ F32Between(F32Make(0, 137, 959693), calibrationFactor',
                                F32Make(0, 137, 960512))
                  /\ TrueWeight(43122, zeroOffset', calibrationFactor') = F32Weight
                  /\ F32Between(F32Make(0, 131, 6267863),
                                TrueWeight(57683, zeroOffset', calibrationFactor'),
                                F32Make(0, 131, 6273106))]_vars

\* the calibration of the example has returned: tare 25776, reading 43122,
\* known weight 15.2
C18_Witness ==
  /\ pc = "disc_check"
  /\ tickCmd = CALIBRATE
  /\ zeroOffset = 25776
  /\ calibrationFactor = FactorFor(43122, 25776, F32Weight)
  /\ F32IsNormal(calibrationFactor)

\* C19: every run of calibrateScale() goes through its steps in the one
\* order: key, tare, key, weight entered, scale factor computed, persist.
\* The zero offset is set by the tare and by no later step, the scale factor
\* is computed from that zero offset after the weight was entered, storage
\* is written in the last step only and then holds the factor just computed
\* and the zero offset of the run's tare.
C19_CalibrationStepOrder ==
  [][(pc \in CalibratePcs /\ pc' # pc /\ pc' # "boot")
       => /\ pc = "cal_clear"
               => /\ pc' = "cal_weight"
                  /\ zeroOffset' \in EmptyAverages
                  /\ UNCHANGED <<calibrationFactor, eeprom>>
          /\ pc = "cal_weight"
               => /\ pc' = "cal_input"
                  /\ UNCHANGED <<zeroOffset, calibrationFactor, eeprom>>
          /\ pc = "cal_input"
               => /\ pc' = "disc_check"
                  /\ zeroOffset' = zeroOffset
                  /\ \E w \in ParsedWeights, A \in LoadedAverages :
                       calibrationFactor' = FactorFor(A, zeroOffset, w)
                  /\ eeprom' = RecordSystemSettings(eeprom, calibrationFactor',
                                                    zeroOffset)]_vars

\* a calibration dispatched in a later tick of a connection has returned
\* with a usable factor, and storage holds the run's values
C19_Witness ==
  /\ pc = "disc_check"
  /\ tickCmd = CALIBRATE
  /\ tickOps = <<"calibrateScale">>
  /\ runTicks >= 1
  /\ zeroOffset = 25776
  /\ F32IsNormal(calibrationFactor)
  /\ Persisted

\* C20: within a run of the device the command cell changes in a control
\* write only, which needs a connection and leaves the written byte in the
\* cell; connects, disconnects and the steps of loop() keep it.  So a tick of
\* a connection over which nothing was written yet dispatches the byte last
\* written before, in an earlier connection.
C20_CommandKeptAcrossConnections ==
  [][/\ (command' # command /\ pc' # "boot")
          => /\ deviceConnected /\ deviceConnected'
             /\ pc' = pc
             /\ writtenSinceConnect'
             /\ command' = lastWritten'
     /\ (DispatchStep /\ ~writtenSinceConnect)
          => /\ tickCmd' = lastWritten
             /\ tickOps' = OpsFor(lastWritten)]_vars

\* the first tick of a new connection, over which nothing was written, has
\* dispatched the Tare written in an earlier connection
C20_Witness ==
  /\ pc = "disc_check"
  /\ deviceConnected
  /\ tickConnected
  /\ ~writtenSinceConnect
  /\ runTicks = 0
  /\ ~changed
  /\ lastWritten = TARE
  /\ tickCmd = TARE
  /\ tickOps = <<"calculateZeroOffset">>

====
